---- MODULE Spec2Model ----
(***************************************************************************)
(* Model of the validator TVC tracker: src/tvc.py, which reports on one    *)
(* validator, and src/tvc-ranks.py, which has the same start-up, client,   *)
(* ranking step and main loop and prints a table of ranks.  The script     *)
(* that runs is sys.argv[0]; line numbers are those of tvc.py unless the   *)
(* file is named.                                                          *)
(*                                                                         *)
(* One Python process: the main thread runs the polling loop, the signal   *)
(* handler runs asynchronously between two steps of the main thread.       *)
(* A Python dict is a function whose DOMAIN is the set of keys present,    *)
(* so dict.get(k, default) is Get(d, k, default) and d[k] on a missing key *)
(* is a KeyError.                                                          *)
(***************************************************************************)
EXTENDS Integers, Sequences, FiniteSets, TLC

VARIABLES
    DEBUG_MODE,           \* tvc.py:28   the debug toggle
    temp_files,           \* tvc.py:87   the temp files of the current or last cycle that exist
    left_over,            \* temp files of earlier cycles that still exist
    argv,                 \* sys.argv: the script name and its arguments
    cluster,              \* tvc.py:48   sys.argv[1].lower()
    RPC_URLS,             \* tvc.py:13   the built-in dict, from tvc.py:56 on the list of the cluster
    startup_output,       \* lines written to stdout and stderr by tvc.py:44-53
    LIST_RANKS,           \* tvc-ranks.py:24   the ranks the table lists
    gossip_data,          \* tvc.py:124
    validator_info_data,  \* tvc.py:138
    running,              \* tvc.py:31   the loop flag
    pc,                   \* position of the main thread
    validator_identity,   \* tvc.py:49   sys.argv[2]
    fetchNo,              \* which of the three commands of the cycle is being fetched
    epIdx,                \* run_solana_command: index of the next rpc_url in RPC_URLS
    attempts,             \* run_solana_command: the subprocess runs of the current call
    warnings,             \* "Warning: RPC ... failed" lines printed by the current call
    errors,               \* "Error: All RPC endpoints failed" lines printed by the current call
    result,               \* value returned by the current call
    validators,           \* tvc.py:109
    sorted_validators,    \* tvc.py:141
    ranked_validators,    \* tvc.py:144
    epoch_credits_rank_1, \* tvc.py:157
    ranked,               \* the current cycle has executed the ranking step
    report,               \* what the current cycle has printed at tvc.py:244-247
    cycleEnd,             \* how the last cycle function call ended
    elapsed,              \* sleep ticks slept since sleep_start (tvc.py:275)
    shutdownMsgs,         \* number of "shut down cleanly" lines printed (tvc.py:283)
    exitCode,             \* exit status of the process, -1 while it is alive
    sigAt,                \* pc of the main thread when the first signal was handled
    sinceSignal           \* work done by the main thread after the first signal

vars == <<DEBUG_MODE, temp_files, left_over, argv, cluster, RPC_URLS, startup_output, LIST_RANKS, gossip_data,
          validator_info_data, running, pc, validator_identity, fetchNo, epIdx, attempts, warnings, errors,
          result, validators, sorted_validators, ranked_validators,
          epoch_credits_rank_1, ranked, report, cycleEnd, elapsed, shutdownMsgs,
          exitCode, sigAt, sinceSignal>>

-----------------------------------------------------------------------------
(* Bounds of the model *)

MaxFetched == 1     \* longest validator list an endpoint returns in Spec
MaxValidators == 3  \* longest validator list ranked in RankSpec
MaxCredits == 2     \* largest epochCredits value
MaxArgs == 3        \* largest number of command-line arguments in StartSpec
MaxListed == 2      \* longest validator list of a cycle in CycleSpec
MaxLeftOver == 5    \* from this number on the left-over temp files are no longer counted
MaxEntries == 2     \* longest gossip, validator-info or detailed validator list in LookupSpec

(* Program constants *)

\* tvc.py:13-22: the primary and the backup endpoint of each cluster
BuiltinRpcUrls ==
    [um |-> <<"https://api.mainnet-beta.solana.com", "https://mainnet.helius-rpc.com/">>,
     ut |-> <<"https://api.testnet.solana.com", "https://multi-muddy-model.solana-testnet.quiknode.pro/">>]

Clusters == {"um", "ut"}

Programs == {"tvc.py", "tvc-ranks.py"}

\* tvc-ranks.py:24-27
InitialListRanks ==
    <<1, 5, 10, 15, 20, 25, 30, 35, 40, 45, 50, 60, 70, 80, 90, 100,
      150, 200, 250, 300, 350, 400, 450, 500, 550, 600, 650, 700, 750, 800, 850, 900, 950,
      1000, 1050, 1100, 1150, 1200, 1250, 1300>>

\* tvc.py:25
COMPARE_RANKS ==
    <<1, 10, 50, 100, 150, 200, 250, 300, 400, 500, 750, 1000, 1250, 1500, 1750,
      2000, 2250, 2500, 2750, 3000, 3250, 3500>>

\* tvc.py:80-93: the temp files a cycle creates
TempFiles == {"validators_file", "sorted_file", "ranked_file", "validator_info_file", "gossip_file"}

\* the three commands of a cycle, in the order the cycle runs them
COMMANDS == <<"validators", "gossip", "validator-info get">>

SLEEP_SECONDS == 5

TICKS_PER_SECOND == 10

SleepTicks == SLEEP_SECONDS * TICKS_PER_SECOND

Ids == {"A", "B"}

\* words of a command line: a cluster, a cluster in capitals, a validator identity
ArgWords == {"um", "UT", "A"}

\* str.lower() on the words of the model
Lower(w) == CASE w = "UM" -> "um" [] w = "UT" -> "ut" [] OTHER -> w

\* The validator list of the end-to-end scenario: A and B tie for the lead,
\* C follows, D has no credits.
ScenarioIds == {"A", "B", "C", "D"}

ScenarioValidators ==
    << ("identityPubkey" :> "A") @@ ("epochCredits" :> 100),
       ("identityPubkey" :> "B") @@ ("epochCredits" :> 100),
       ("identityPubkey" :> "C") @@ ("epochCredits" :> 50),
       ("identityPubkey" :> "D") @@ ("epochCredits" :> 0) >>

-----------------------------------------------------------------------------
(* Python values *)

EmptyDict == [k \in {} |-> 0]

Get(d, k, default) == IF k \in DOMAIN d THEN d[k] ELSE default

\* A validator record as json.loads delivers it: each key present or absent.
ValidatorDict(id, credits) ==
    (IF id = "" THEN EmptyDict ELSE ("identityPubkey" :> id))
    @@ (IF credits < 0 THEN EmptyDict ELSE ("epochCredits" :> credits))

ValidatorRecords == { ValidatorDict(id, c) : id \in Ids \cup {""}, c \in -1..MaxCredits }

RECURSIVE ListsUpTo(_, _)
ListsUpTo(S, n) ==
    IF n = 0 THEN { <<>> }
    ELSE LET shorter == ListsUpTo(S, n - 1)
         IN  shorter \cup { Append(l, x) : l \in { s \in shorter : Len(s) = n - 1 }, x \in S }

\* The keys of a validator record that the reports show besides the credits,
\* with the value each has when present.
DetailKeys == {"voteAccountPubkey", "lastVote", "rootSlot", "activatedStake", "version", "skipRate"}

DetailValue ==
    [voteAccountPubkey |-> "VoteKey", lastVote |-> 101, rootSlot |-> 100,
     activatedStake |-> 1500000000, version |-> "1.18.2", skipRate |-> "12.5"]

DetailDict(id, credits, keys) == ValidatorDict(id, credits) @@ [k \in keys |-> DetailValue[k]]

DetailRecords ==
    { DetailDict(id, c, keys) : id \in Ids, c \in 1..MaxCredits, keys \in {{}, DetailKeys} }

\* one validator with any combination of the detail keys
SingleDetailed == { <<DetailDict(id, 1, keys)>> : id \in Ids, keys \in SUBSET DetailKeys }

\* a name longer than the 25 characters that tvc-ranks.py prints
LongName == "A very long validator name"

\* An entry of `solana validator-info get`: n = "-" has no "info" key, n = ""
\* has an "info" without "name".
InfoDict(id, n) ==
    (IF id = "" THEN EmptyDict ELSE ("identityPubkey" :> id))
    @@ (IF n = "-" THEN EmptyDict
        ELSE ("info" :> (IF n = "" THEN EmptyDict ELSE ("name" :> n))))

InfoEntries == { InfoDict(id, n) : id \in Ids \cup {""}, n \in {"-", "", "Alpha", LongName} }

\* An entry of `solana gossip`.
GossipDict(id, ip) ==
    (IF id = "" THEN EmptyDict ELSE ("identityPubkey" :> id))
    @@ (IF ip = "" THEN EmptyDict ELSE ("ipAddress" :> ip))

GossipEntries == { GossipDict(id, ip) : id \in Ids \cup {""}, ip \in {"", "10.0.0.1", "10.0.0.2"} }

\* What a call of run_solana_command evaluates to: None, or the stdout text of
\* the command, which is empty, not JSON, or JSON holding `data`.
None == [kind |-> "None", data |-> <<>>]

Stdout(kind, data) == [kind |-> kind, data |-> data]

\* JSON documents an endpoint may answer command `n` with.  Gossip and
\* validator-info answers are lists; their entries are not read before the
\* lookups of the render step.
JsonData(n) == IF n = 1 THEN ListsUpTo(ValidatorRecords, MaxFetched) ELSE { <<>> }

Outputs(n) == { Stdout("empty", <<>>), Stdout("malformed", <<>>) }
                \cup { Stdout("json", d) : d \in JsonData(n) }

\* (FalsyMutant: a test that takes only None for a missing payload, as
\* `x is None` would.)
FalsyMutant(x) == x.kind = "None"
\* `not x` for x a str or None
Falsy(x) == x.kind \in {"None", "empty"}

\* json.loads(x) raises JSONDecodeError
JsonLoadsRaises(x) == x.kind = "malformed"

-----------------------------------------------------------------------------
(* Ranking: tvc.py:140-157 *)

Credits(v) == Get(v, "epochCredits", 0)

\* Python's sorted(..., reverse=True) is stable: of two records with equal
\* keys the one that stands first in the input stands first in the output.
\* (GoesBeforeMutant: ties reversed, as sorted(...) followed by reversal would do.)
GoesBeforeMutant(a, b) == Credits(a) > Credits(b)
GoesBefore(a, b) == Credits(a) >= Credits(b)

RECURSIVE InsertDesc(_, _, _)
InsertDesc(L, s, i) ==
    IF s = <<>> THEN <<i>>
    ELSE IF GoesBefore(L[Head(s)], L[i]) THEN <<Head(s)>> \o InsertDesc(L, Tail(s), i)
    ELSE <<i>> \o s

RECURSIVE SortOrder(_, _)
SortOrder(L, n) == IF n = 0 THEN <<>> ELSE InsertDesc(L, SortOrder(L, n - 1), n)

\* (SortedMutant: ranks given by position in the fetched order, without the sort.)
SortedMutant(L) == L
Sorted(L) == LET order == SortOrder(L, Len(L)) IN [k \in 1..Len(L) |-> L[order[k]]]

\* enumerate() counts from 0 and the rank is idx + 1; the positions of a
\* sequence count from 1.
\* (RankOfIndexMutant: the enumerate index used as the rank, without the + 1.)
RankOfIndexMutant(idx) == idx - 1
RankOfIndex(idx) == idx

\* (IsRankedMutant: a filter that keeps every record with the key, also with 0 credits.)
IsRankedMutant(v) == "epochCredits" \in DOMAIN v
\* `if validator.get("epochCredits", 0) > 0` (tvc.py:146)
IsRanked(v) == Credits(v) > 0

\* (ArgumentAfterSortedMutant: validators.sort(...), which sorts in place.)
ArgumentAfterSortedMutant(L) == Sorted(L)
\* sorted(L, ...) builds a new list and {**validator, "rank": ...} new dicts:
\* the list passed in and its records stay as they are (tvc.py:141-147)
ArgumentAfterSorted(L) == L

Ranked(S) ==
    LET kept == SelectSeq([k \in 1..Len(S) |-> k], LAMBDA k : IsRanked(S[k]))
    IN  [j \in 1..Len(kept) |-> ("rank" :> RankOfIndex(kept[j])) @@ S[kept[j]]]

\* (EpochCreditsRank1Mutant: the baseline taken from the last ranked record.)
EpochCreditsRank1Mutant(R) == IF R # <<>> THEN R[Len(R)]["epochCredits"] ELSE 0
EpochCreditsRank1(R) == IF R # <<>> THEN R[1]["epochCredits"] ELSE 0

-----------------------------------------------------------------------------
(* Lookups and report of tvc.py: tvc.py:159-247 *)

HasId(v) == "identityPubkey" \in DOMAIN v

\* next((v for v in R if v["identityPubkey"] == id), None): position of the
\* first match, 0 for None.
\* (FirstMatchMutant: the last match, as a lookup through a dict built from
\* the list would give.)
FirstMatchMutant(R, id) ==
    LET hits == { k \in 1..Len(R) : HasId(R[k]) /\ R[k]["identityPubkey"] = id }
    IN  IF hits = {} THEN 0 ELSE CHOOSE k \in hits : \A j \in hits : k >= j
FirstMatch(R, id) ==
    LET hits == { k \in 1..Len(R) : HasId(R[k]) /\ R[k]["identityPubkey"] = id }
    IN  IF hits = {} THEN 0 ELSE CHOOSE k \in hits : \A j \in hits : k <= j

\* The generator raises KeyError at the first record without the key, unless
\* a match stands before it.
LookupRaises(R, id) ==
    \E k \in 1..Len(R) :
        /\ ~HasId(R[k])
        /\ \A j \in 1..(k - 1) : HasId(R[j]) /\ R[j]["identityPubkey"] # id

\* The script the interpreter runs: sys.argv[0].
program == argv[1]

Unknown == "Unknown"

\* str(n) for an int n >= 0
Digit(d) == SubSeq("0123456789", d + 1, d + 1)

RECURSIVE IntStr(_)
IntStr(n) == IF n < 10 THEN Digit(n) ELSE IntStr(n \div 10) \o Digit(n % 10)

\* f"{n:,}" for an int n >= 0
RECURSIVE Grouped(_)
Grouped(n) ==
    IF n < 1000 THEN IntStr(n)
    ELSE Grouped(n \div 1000) \o "," \o Digit((n \div 100) % 10)
             \o Digit((n \div 10) % 10) \o Digit(n % 10)

LAMPORTS_PER_SOL == 1000000000

\* f"{int(lamports) / 1_000_000_000:,.2f}" followed by the sign: the amount
\* rounded to the nearest hundredth (the stakes of the model are not half
\* way between two hundredths).
StakeText(lamports, sign) ==
    LET h == (lamports + LAMPORTS_PER_SOL \div 200) \div (LAMPORTS_PER_SOL \div 100)
    IN  Grouped(h \div 100) \o "." \o Digit((h \div 10) % 10) \o Digit(h % 10) \o sign

\* tvc.py:187, tvc-ranks.py:181
StakeSign(p) == IF p = "tvc.py" THEN "◎" ELSE " ◎"

\* f"{v.get(key, 'Unknown')}" for a key that holds an int
IntField(v, key) == IF key \in DOMAIN v THEN IntStr(v[key]) ELSE Unknown

\* tvc.py:160-164
get_validator_name(I, id) ==
    LET k == FirstMatch(I, id)
    IN  IF k = 0 THEN Unknown ELSE Get(Get(I[k], "info", EmptyDict), "name", Unknown)

\* tvc.py:167-171
get_ip_address(G, id) ==
    LET k == FirstMatch(G, id)
    IN  IF k = 0 THEN Unknown ELSE Get(G[k], "ipAddress", Unknown)

\* tvc.py:174-178
get_vote_pubkey(R, id) ==
    LET k == FirstMatch(R, id)
    IN  IF k = 0 THEN Unknown ELSE Get(R[k], "voteAccountPubkey", Unknown)

\* tvc.py:181-197, tvc-ranks.py:176-188: the dict, each value as the report prints it
get_validator_details(R, id, p) ==
    LET k == FirstMatch(R, id)
        common ==
            [activatedStake |-> IF k = 0 THEN Unknown
                                ELSE StakeText(Get(R[k], "activatedStake", 0), StakeSign(p)),
             version |-> IF k = 0 THEN Unknown ELSE Get(R[k], "version", Unknown),
             skipRate |-> IF k = 0 THEN Unknown ELSE Get(R[k], "skipRate", Unknown)]
    IN  IF p = "tvc.py"
        THEN ("lastVote" :> (IF k = 0 THEN Unknown ELSE IntField(R[k], "lastVote")))
             @@ ("rootSlot" :> (IF k = 0 THEN Unknown ELSE IntField(R[k], "rootSlot")))
             @@ common
        ELSE common

\* The closures of tvc.py:160-197 (tvc-ranks.py:161-188 has no
\* get_vote_pubkey) applied to the identity q.
LookupsOf(R, G, I, q, p) ==
    [kind |-> "lookups", query |-> q,
     name |-> get_validator_name(I, q),
     ip |-> get_ip_address(G, q),
     details |-> get_validator_details(R, q, p)]
    @@ (IF p = "tvc.py" THEN ("vote_pubkey" :> get_vote_pubkey(R, q)) ELSE EmptyDict)

NoReport == [kind |-> "none"]

\* next((v for v in R if v["rank"] == r), None): position of the match, 0 for None
RankMatch(R, r) ==
    LET hits == { k \in 1..Len(R) : R[k]["rank"] = r }
    IN  IF hits = {} THEN 0 ELSE CHOOSE k \in hits : \A j \in hits : k <= j

\* tvc.py:215-220: the credit differences to the ranks of COMPARE_RANKS that
\* the ranked view holds
Distances(R, credits) ==
    LET held == SelectSeq(COMPARE_RANKS, LAMBDA r : RankMatch(R, r) # 0)
    IN  [i \in 1..Len(held) |->
            [rank |-> held[i], diff |-> R[RankMatch(R, held[i])]["epochCredits"] - credits]]

\* tvc.py:205-247: what the report of tvc.py shows
ReportOf(R, G, I, id, leader) ==
    LET k == FirstMatch(R, id)
    IN  IF k = 0 THEN [kind |-> "not_found", identity |-> id]
        ELSE [kind |-> "detail",
              name |-> get_validator_name(I, id),
              identity |-> id,
              vote_pubkey |-> Get(R[k], "voteAccountPubkey", Unknown),
              ip |-> get_ip_address(G, id),
              details |-> get_validator_details(R, id, "tvc.py"),
              rank |-> R[k]["rank"],
              credits |-> R[k]["epochCredits"],
              missed |-> leader - R[k]["epochCredits"],
              distances |-> Distances(R, R[k]["epochCredits"])]

-----------------------------------------------------------------------------
(* The table of tvc-ranks.py: tvc-ranks.py:190-245 *)

InsertAsc(q, x) ==
    SelectSeq(q, LAMBDA y : y <= x) \o <<x>> \o SelectSeq(q, LAMBDA y : y > x)

\* list.sort()
RECURSIVE SortAsc(_)
SortAsc(q) == IF q = <<>> THEN <<>> ELSE InsertAsc(SortAsc(SubSeq(q, 1, Len(q) - 1)), q[Len(q)])

\* tvc-ranks.py:197-203: the rank of the tracked validator is appended to
\* LIST_RANKS, which is sorted again
ListRanksAfter(list, R, id) ==
    LET k == FirstMatch(R, id)
    IN  IF k # 0 /\ \A i \in 1..Len(list) : list[i] # R[k]["rank"]
        THEN SortAsc(Append(list, R[k]["rank"]))
        ELSE list

\* tvc-ranks.py:218-220
Shortened(name) == IF Len(name) > 25 THEN SubSeq(name, 1, 22) \o "..." ELSE name

\* tvc-ranks.py:206-240: the line printed for rank r
TableLine(R, G, I, id, leader, r) ==
    LET k == RankMatch(R, r)
        row == R[k]["identityPubkey"]
        details == get_validator_details(R, row, "tvc-ranks.py")
    IN  IF k = 0 THEN [kind |-> "rank_not_found", rank |-> r]
        ELSE [kind |-> "row",
              rank |-> r,
              credits |-> R[k]["epochCredits"],
              missed |-> leader - R[k]["epochCredits"],
              ip |-> get_ip_address(G, row),
              stake |-> details["activatedStake"],
              version |-> details["version"],
              name |-> Shortened(get_validator_name(I, row)),
              identity |-> row,
              highlighted |-> (row = id)]

\* tvc-ranks.py:193-245: what the report of tvc-ranks.py shows
TableOf(R, G, I, id, leader, list) ==
    [kind |-> "table",
     lines |-> [i \in 1..Len(list) |-> TableLine(R, G, I, id, leader, list[i])]]

\* validator["identityPubkey"] raises KeyError for a listed rank (tvc-ranks.py:209)
TableRaises(R, list) ==
    \E i \in 1..Len(list) : RankMatch(R, list[i]) # 0 /\ ~HasId(R[RankMatch(R, list[i])])

-----------------------------------------------------------------------------
(* State after start-up with valid arguments: tvc.py:31-56, 268 *)

NoSignalWork == [cycles |-> 0, ticks |-> 0]

\* `for file_path in temp_files: if os.path.exists(file_path): os.remove(file_path)`
\* before an early return, whatever DEBUG_MODE is (tvc.py:99-103, 114-118, 129-133)
AfterEarlyReturn(files) == {}

\* (AfterFinallyMutant: a finally block that removes nothing.)
AfterFinallyMutant(files, debug) == files
\* the finally block removes the files that exist unless DEBUG_MODE is set
\* (tvc.py:249-265)
AfterFinally(files, debug) == IF debug THEN files ELSE {}

\* The five files of a new cycle are created (tvc.py:80-84); the files that
\* the cycle before left behind stay where they are.
LeftOverAfter(n, files) ==
    IF n + Cardinality(files) < MaxLeftOver THEN n + Cardinality(files) ELSE MaxLeftOver

NoOutput == [stdout |-> <<>>, stderr |-> <<>>]

CycleLocalsCleared ==
    /\ validators' = <<>>
    /\ gossip_data' = <<>>
    /\ validator_info_data' = <<>>
    /\ sorted_validators' = <<>>
    /\ ranked_validators' = <<>>
    /\ epoch_credits_rank_1' = 0
    /\ attempts' = <<>>
    /\ result' = None

\* the process after a valid start-up, before its first cycle
ProcessInit ==
    /\ temp_files = {}
    /\ left_over = 0
    /\ cluster \in Clusters
    /\ validator_identity \in Ids
    /\ \E script \in Programs : argv = <<script, cluster, validator_identity>>
    /\ RPC_URLS = BuiltinRpcUrls[cluster]
    /\ startup_output = NoOutput
    /\ LIST_RANKS = InitialListRanks
    /\ gossip_data = <<>>
    /\ validator_info_data = <<>>
    /\ running = TRUE
    /\ pc = "while_running"
    /\ fetchNo = 0
    /\ epIdx = 1
    /\ attempts = <<>>
    /\ warnings = 0
    /\ errors = 0
    /\ result = None
    /\ validators = <<>>
    /\ sorted_validators = <<>>
    /\ ranked_validators = <<>>
    /\ epoch_credits_rank_1 = 0
    /\ ranked = FALSE
    /\ report = NoReport
    /\ cycleEnd = "none"
    /\ elapsed = 0
    /\ shutdownMsgs = 0
    /\ exitCode = -1
    /\ sigAt = "none"
    /\ sinceSignal = NoSignalWork

\* DEBUG_MODE = False, as the scripts are distributed (tvc.py:28)
Init ==
    /\ DEBUG_MODE = FALSE
    /\ ProcessInit

\* DEBUG_MODE edited to True (tvc.py:28), on the mainnet cluster
DebugInit ==
    /\ DEBUG_MODE = TRUE
    /\ cluster = "um"
    /\ ProcessInit

Alive == pc \notin {"stopped", "crashed", "exited"}

CyclePcs == {"attempt", "returned", "rank", "render"}

SleepPcs == {"sleep_test", "sleep_tick"}

Bump(field) ==
    IF running THEN sinceSignal
    ELSE [sinceSignal EXCEPT ![field] = IF @ < 2 THEN @ + 1 ELSE @]

-----------------------------------------------------------------------------
(* Start-up: tvc.py:43-56 *)

\* print(line): one more line on standard output
StdoutLine(out, line) == [out EXCEPT !.stdout = Append(@, line)]

\* tvc.py:44, 51
ArgumentsAccepted(a) == Len(a) = 3 /\ Lower(a[2]) \in {"um", "ut"}

\* tvc.py:56
SelectedUrls(urls, c) == urls[c]

\* The interpreter starts the script: module level up to tvc.py:43.
StartInit ==
    /\ DEBUG_MODE = FALSE
    /\ temp_files = {}
    /\ left_over = 0
    /\ argv \in { <<script>> \o args : script \in Programs,
                                        args \in ListsUpTo(ArgWords, MaxArgs) }
    /\ cluster = ""
    /\ validator_identity = ""
    /\ RPC_URLS = BuiltinRpcUrls
    /\ startup_output = NoOutput
    /\ LIST_RANKS = InitialListRanks
    /\ gossip_data = <<>>
    /\ validator_info_data = <<>>
    /\ running = TRUE
    /\ pc = "startup"
    /\ fetchNo = 0
    /\ epIdx = 1
    /\ attempts = <<>>
    /\ warnings = 0
    /\ errors = 0
    /\ result = None
    /\ validators = <<>>
    /\ sorted_validators = <<>>
    /\ ranked_validators = <<>>
    /\ epoch_credits_rank_1 = 0
    /\ ranked = FALSE
    /\ report = NoReport
    /\ cycleEnd = "none"
    /\ elapsed = 0
    /\ shutdownMsgs = 0
    /\ exitCode = -1
    /\ sigAt = "none"
    /\ sinceSignal = NoSignalWork

\* the usage line or the error line is printed and sys.exit(1) ends the
\* process (tvc.py:44-53)
StartupRejects ==
    /\ pc = "startup"
    /\ ~ArgumentsAccepted(argv)
    /\ IF Len(argv) # 3
       THEN /\ startup_output' = StdoutLine(startup_output, "Usage")
            /\ UNCHANGED <<cluster, validator_identity>>
       ELSE /\ cluster' = Lower(argv[2])
            /\ validator_identity' = argv[3]
            /\ startup_output' = StdoutLine(startup_output, "Error")
    /\ exitCode' = 1
    /\ pc' = "exited"
    /\ UNCHANGED <<DEBUG_MODE, temp_files, left_over>>
    /\ UNCHANGED <<argv, RPC_URLS, LIST_RANKS, gossip_data, validator_info_data,
                   running, fetchNo, epIdx, attempts, warnings, errors, result,
                   validators, sorted_validators, ranked_validators,
                   epoch_credits_rank_1, ranked, report, cycleEnd, elapsed,
                   shutdownMsgs, sigAt, sinceSignal>>

\* the arguments pass, the endpoint list of the cluster is selected and the
\* main loop is reached (tvc.py:44-56, 268-270)
StartupSelects ==
    /\ pc = "startup"
    /\ ArgumentsAccepted(argv)
    /\ cluster' = Lower(argv[2])
    /\ validator_identity' = argv[3]
    /\ RPC_URLS' = SelectedUrls(RPC_URLS, cluster')
    /\ pc' = "while_running"
    /\ UNCHANGED <<DEBUG_MODE, temp_files, left_over>>
    /\ UNCHANGED <<argv, startup_output, LIST_RANKS, gossip_data, validator_info_data,
                   running, fetchNo, epIdx, attempts, warnings, errors, result,
                   validators, sorted_validators, ranked_validators,
                   epoch_credits_rank_1, ranked, report, cycleEnd, elapsed,
                   shutdownMsgs, exitCode, sigAt, sinceSignal>>

-----------------------------------------------------------------------------
(* Signal handler: tvc.py:34-41 *)

\* (PcAfterSignalMutant: Python's default SIGINT behaviour, a KeyboardInterrupt
\* raised in the interrupted code and caught at tvc.py:278.)
PcAfterSignalMutant(p) == IF p \in CyclePcs THEN "shutdown" ELSE p
PcAfterSignal(p) == p

signal_handler ==
    /\ Alive
    /\ running' = FALSE
    /\ pc' = PcAfterSignal(pc)
    /\ sigAt' = IF sigAt = "none" THEN pc ELSE sigAt
    /\ UNCHANGED <<DEBUG_MODE, temp_files, left_over>>
    /\ UNCHANGED <<argv, cluster, RPC_URLS, startup_output, LIST_RANKS, gossip_data,
                   validator_info_data>>
    /\ UNCHANGED <<validator_identity, fetchNo, epIdx, attempts, warnings, errors,
                   result, validators, sorted_validators, ranked_validators,
                   epoch_credits_rank_1, ranked, report, cycleEnd, elapsed,
                   shutdownMsgs, exitCode, sinceSignal>>

-----------------------------------------------------------------------------
(* run_solana_command: tvc.py:58-74 *)

StartCall(n) ==
    /\ fetchNo' = n
    /\ epIdx' = 1
    /\ attempts' = <<>>
    /\ warnings' = 0
    /\ errors' = 0
    /\ result' = None
    /\ pc' = "attempt"

\* (NextEndpointMutant: a loop that skips an endpoint after a failure.)
NextEndpointMutant(i) == i + 2
NextEndpoint(i) == i + 1

\* (WarningsAfterFailureMutant: a failure that is swallowed without a warning.)
WarningsAfterFailureMutant(w) == w
WarningsAfterFailure(w) == w + 1

Run(outcome, out) ==
    [endpoint |-> epIdx, url |-> RPC_URLS[epIdx], outcome |-> outcome, output |-> out]

\* subprocess.run exits 0: return result.stdout (tvc.py:62-69)
AttemptSucceeds ==
    /\ pc = "attempt"
    /\ epIdx <= Len(RPC_URLS)
    /\ \E out \in Outputs(fetchNo) :
        /\ attempts' = Append(attempts, Run("exit0", out))
        /\ result' = out
    /\ pc' = "returned"
    /\ UNCHANGED <<DEBUG_MODE, temp_files, left_over>>
    /\ UNCHANGED <<argv, cluster, RPC_URLS, startup_output, LIST_RANKS, gossip_data,
                   validator_info_data>>
    /\ UNCHANGED <<running, validator_identity, fetchNo, epIdx, warnings, errors,
                   validators, sorted_validators, ranked_validators,
                   epoch_credits_rank_1, ranked, report, cycleEnd, elapsed,
                   shutdownMsgs, exitCode, sigAt, sinceSignal>>

\* subprocess.run raises CalledProcessError: warning, next rpc_url (tvc.py:70-71)
AttemptFails ==
    /\ pc = "attempt"
    /\ epIdx <= Len(RPC_URLS)
    /\ attempts' = Append(attempts, Run("nonzero", None))
    /\ warnings' = WarningsAfterFailure(warnings)
    /\ epIdx' = NextEndpoint(epIdx)
    /\ UNCHANGED <<DEBUG_MODE, temp_files, left_over>>
    /\ UNCHANGED <<argv, cluster, RPC_URLS, startup_output, LIST_RANKS, gossip_data,
                   validator_info_data>>
    /\ UNCHANGED <<running, pc, validator_identity, fetchNo, errors, result,
                   validators, sorted_validators, ranked_validators,
                   epoch_credits_rank_1, ranked, report, cycleEnd, elapsed,
                   shutdownMsgs, exitCode, sigAt, sinceSignal>>

\* An exception no handler of the program catches leaves the cycle function
\* through its finally block (tvc.py:249) and the main loop through
\* tvc.py:278, which catches KeyboardInterrupt only: traceback, exit status 1.
Uncaught(where) ==
    /\ pc' = "crashed"
    /\ exitCode' = 1
    /\ cycleEnd' = where
    /\ CycleLocalsCleared
    /\ temp_files' = AfterFinally(temp_files, DEBUG_MODE)
    /\ warnings' = 0
    /\ errors' = 0

\* subprocess.run raises another exception, such as the OSError of a command
\* that cannot be launched (tvc.py:62): not a CalledProcessError.
AttemptRaises ==
    /\ pc = "attempt"
    /\ epIdx <= Len(RPC_URLS)
    /\ Uncaught("raised_run")
    /\ UNCHANGED <<DEBUG_MODE, left_over>>
    /\ UNCHANGED <<argv, cluster, RPC_URLS, startup_output, LIST_RANKS>>
    /\ UNCHANGED <<running, validator_identity, fetchNo, epIdx, ranked, report,
                   elapsed, shutdownMsgs, sigAt, sinceSignal>>

\* the for loop is exhausted (tvc.py:73-74)
AllEndpointsFailed ==
    /\ pc = "attempt"
    /\ epIdx > Len(RPC_URLS)
    /\ errors' = errors + 1
    /\ result' = None
    /\ pc' = "returned"
    /\ UNCHANGED <<DEBUG_MODE, temp_files, left_over>>
    /\ UNCHANGED <<argv, cluster, RPC_URLS, startup_output, LIST_RANKS, gossip_data,
                   validator_info_data>>
    /\ UNCHANGED <<running, validator_identity, fetchNo, epIdx, attempts, warnings,
                   validators, sorted_validators, ranked_validators,
                   epoch_credits_rank_1, ranked, report, cycleEnd, elapsed,
                   shutdownMsgs, exitCode, sigAt, sinceSignal>>

-----------------------------------------------------------------------------
(* fetch_and_display_validator_data: tvc.py:76-265 *)

\* (SkipsCycleMutant: a cycle without the `if not data: return` checks.)
SkipsCycleMutant(x) == FALSE
SkipsCycle(x) == Falsy(x)

\* `if not data:` remove the temp files and return (tvc.py:98-103, 113-118, 128-133)
FetchSkipsCycle ==
    /\ pc = "returned"
    /\ SkipsCycle(result)
    /\ cycleEnd' = IF result = None THEN "exhausted" ELSE "empty"
    /\ CycleLocalsCleared
    /\ warnings' = 0
    /\ errors' = 0
    /\ elapsed' = 0
    /\ pc' = "sleep_test"
    /\ temp_files' = AfterFinally(AfterEarlyReturn(temp_files), DEBUG_MODE)
    /\ UNCHANGED <<DEBUG_MODE, left_over>>
    /\ UNCHANGED <<argv, cluster, RPC_URLS, startup_output, LIST_RANKS>>
    /\ UNCHANGED <<running, validator_identity, fetchNo, epIdx, ranked, report,
                   shutdownMsgs, exitCode, sigAt, sinceSignal>>

\* json.loads raises JSONDecodeError (tvc.py:109, 124, 138)
FetchParseRaises ==
    /\ pc = "returned"
    /\ ~SkipsCycle(result)
    /\ JsonLoadsRaises(result)
    /\ Uncaught("raised_parse")
    /\ UNCHANGED <<DEBUG_MODE, left_over>>
    /\ UNCHANGED <<argv, cluster, RPC_URLS, startup_output, LIST_RANKS>>
    /\ UNCHANGED <<running, validator_identity, fetchNo, epIdx, ranked, report,
                   elapsed, shutdownMsgs, sigAt, sinceSignal>>

\* the payload is parsed and kept; the next command is fetched, or after the
\* last one the ranking starts (tvc.py:105-138)
FetchStored ==
    /\ pc = "returned"
    /\ ~SkipsCycle(result)
    /\ ~JsonLoadsRaises(result)
    /\ validators' = IF fetchNo = 1 THEN result.data ELSE validators
    /\ gossip_data' = IF fetchNo = 2 THEN result.data ELSE gossip_data
    /\ validator_info_data' = IF fetchNo = 3 THEN result.data ELSE validator_info_data
    /\ IF fetchNo < Len(COMMANDS)
       THEN StartCall(fetchNo + 1)
       ELSE /\ pc' = "rank"
            /\ UNCHANGED <<fetchNo, epIdx, attempts, warnings, errors, result>>
    /\ UNCHANGED <<DEBUG_MODE, temp_files, left_over>>
    /\ UNCHANGED <<argv, cluster, RPC_URLS, startup_output, LIST_RANKS>>
    /\ UNCHANGED <<running, validator_identity, sorted_validators, ranked_validators,
                   epoch_credits_rank_1, ranked, report, cycleEnd, elapsed,
                   shutdownMsgs, exitCode, sigAt, sinceSignal>>

\* tvc.py:140-157
RankStep ==
    /\ pc = "rank"
    /\ sorted_validators' = Sorted(validators)
    /\ validators' = ArgumentAfterSorted(validators)
    /\ ranked_validators' = Ranked(sorted_validators')
    /\ epoch_credits_rank_1' = EpochCreditsRank1(ranked_validators')
    /\ ranked' = TRUE
    /\ pc' = "render"
    /\ UNCHANGED <<DEBUG_MODE, temp_files, left_over>>
    /\ UNCHANGED <<argv, cluster, RPC_URLS, startup_output, LIST_RANKS, gossip_data,
                   validator_info_data>>
    /\ UNCHANGED <<running, validator_identity, fetchNo, epIdx, attempts, warnings,
                   errors, result, report, cycleEnd, elapsed,
                   shutdownMsgs, exitCode, sigAt, sinceSignal>>

\* v["identityPubkey"] raises KeyError (tvc.py:203)
RenderRaises ==
    /\ pc = "render"
    /\ program = "tvc.py"
    /\ LookupRaises(ranked_validators, validator_identity)
    /\ Uncaught("raised_render")
    /\ UNCHANGED <<DEBUG_MODE, left_over>>
    /\ UNCHANGED <<argv, cluster, RPC_URLS, startup_output, LIST_RANKS>>
    /\ UNCHANGED <<running, validator_identity, fetchNo, epIdx, ranked, report,
                   elapsed, shutdownMsgs, sigAt, sinceSignal>>

\* the report is printed, the finally block runs, the function returns
\* (tvc.py:200-265)
Render ==
    /\ pc = "render"
    /\ program = "tvc.py"
    /\ ~LookupRaises(ranked_validators, validator_identity)
    /\ report' = ReportOf(ranked_validators, gossip_data, validator_info_data,
                          validator_identity, epoch_credits_rank_1)
    /\ cycleEnd' = "rendered"
    /\ CycleLocalsCleared
    /\ warnings' = 0
    /\ errors' = 0
    /\ elapsed' = 0
    /\ pc' = "sleep_test"
    /\ temp_files' = AfterFinally(temp_files, DEBUG_MODE)
    /\ UNCHANGED <<DEBUG_MODE, left_over>>
    /\ UNCHANGED <<argv, cluster, RPC_URLS, startup_output, LIST_RANKS>>
    /\ UNCHANGED <<running, validator_identity, fetchNo, epIdx, ranked,
                   shutdownMsgs, exitCode, sigAt, sinceSignal>>

\* v["identityPubkey"] raises KeyError in the lookup of the tracked validator
\* or, after LIST_RANKS was updated, in the line of a listed rank
\* (tvc-ranks.py:197, 209)
RanksRenderRaises ==
    /\ pc = "render"
    /\ program = "tvc-ranks.py"
    /\ IF LookupRaises(ranked_validators, validator_identity)
       THEN LIST_RANKS' = LIST_RANKS
       ELSE /\ LIST_RANKS' = ListRanksAfter(LIST_RANKS, ranked_validators, validator_identity)
            /\ TableRaises(ranked_validators, LIST_RANKS')
    /\ Uncaught("raised_render")
    /\ UNCHANGED <<DEBUG_MODE, left_over>>
    /\ UNCHANGED <<argv, cluster, RPC_URLS, startup_output>>
    /\ UNCHANGED <<running, validator_identity, fetchNo, epIdx, ranked, report,
                   elapsed, shutdownMsgs, sigAt, sinceSignal>>

\* LIST_RANKS is updated, the table is printed, the finally block runs, the
\* function returns (tvc-ranks.py:190-262)
RanksRender ==
    /\ pc = "render"
    /\ program = "tvc-ranks.py"
    /\ ~LookupRaises(ranked_validators, validator_identity)
    /\ LIST_RANKS' = ListRanksAfter(LIST_RANKS, ranked_validators, validator_identity)
    /\ ~TableRaises(ranked_validators, LIST_RANKS')
    /\ report' = TableOf(ranked_validators, gossip_data, validator_info_data,
                         validator_identity, epoch_credits_rank_1, LIST_RANKS')
    /\ cycleEnd' = "rendered"
    /\ CycleLocalsCleared
    /\ warnings' = 0
    /\ errors' = 0
    /\ elapsed' = 0
    /\ pc' = "sleep_test"
    /\ temp_files' = AfterFinally(temp_files, DEBUG_MODE)
    /\ UNCHANGED <<DEBUG_MODE, left_over>>
    /\ UNCHANGED <<argv, cluster, RPC_URLS, startup_output>>
    /\ UNCHANGED <<running, validator_identity, fetchNo, epIdx, ranked,
                   shutdownMsgs, exitCode, sigAt, sinceSignal>>

-----------------------------------------------------------------------------
(* Main loop: tvc.py:270-283 *)

LoopContinues(r) == r

\* `while running:` holds, the cycle function is called and calls
\* run_solana_command for the first command (tvc.py:271-272, 80-97)
CycleStarts ==
    /\ pc = "while_running"
    /\ LoopContinues(running)
    /\ StartCall(1)
    /\ ranked' = FALSE
    /\ report' = NoReport
    /\ cycleEnd' = "none"
    /\ sinceSignal' = Bump("cycles")
    /\ temp_files' = TempFiles
    /\ left_over' = LeftOverAfter(left_over, temp_files)
    /\ UNCHANGED DEBUG_MODE
    /\ UNCHANGED <<argv, cluster, RPC_URLS, startup_output, LIST_RANKS, gossip_data,
                   validator_info_data>>
    /\ UNCHANGED <<running, validator_identity, validators, sorted_validators,
                   ranked_validators, epoch_credits_rank_1, elapsed, shutdownMsgs,
                   exitCode, sigAt>>

\* `while running:` fails (tvc.py:271)
LoopExits ==
    /\ pc = "while_running"
    /\ ~LoopContinues(running)
    /\ pc' = "shutdown"
    /\ UNCHANGED <<DEBUG_MODE, temp_files, left_over>>
    /\ UNCHANGED <<argv, cluster, RPC_URLS, startup_output, LIST_RANKS, gossip_data,
                   validator_info_data>>
    /\ UNCHANGED <<running, validator_identity, fetchNo, epIdx, attempts, warnings,
                   errors, result, validators, sorted_validators, ranked_validators,
                   epoch_credits_rank_1, ranked, report, cycleEnd, elapsed,
                   shutdownMsgs, exitCode, sigAt, sinceSignal>>

\* (SleepContinuesMutant: a sleep that waits out the interval without reading the flag.)
SleepContinuesMutant(r, e) == e < SleepTicks
SleepContinues(r, e) == r /\ e < SleepTicks

\* `while running and time.time() - sleep_start < 5:` holds (tvc.py:276)
SleepGoesOn ==
    /\ pc = "sleep_test"
    /\ SleepContinues(running, elapsed)
    /\ pc' = "sleep_tick"
    /\ UNCHANGED <<DEBUG_MODE, temp_files, left_over>>
    /\ UNCHANGED <<argv, cluster, RPC_URLS, startup_output, LIST_RANKS, gossip_data,
                   validator_info_data>>
    /\ UNCHANGED <<running, validator_identity, fetchNo, epIdx, attempts, warnings,
                   errors, result, validators, sorted_validators, ranked_validators,
                   epoch_credits_rank_1, ranked, report, cycleEnd, elapsed,
                   shutdownMsgs, exitCode, sigAt, sinceSignal>>

\* the sleep condition fails (tvc.py:276)
SleepEnds ==
    /\ pc = "sleep_test"
    /\ ~SleepContinues(running, elapsed)
    /\ pc' = "while_running"
    /\ UNCHANGED <<DEBUG_MODE, temp_files, left_over>>
    /\ UNCHANGED <<argv, cluster, RPC_URLS, startup_output, LIST_RANKS, gossip_data,
                   validator_info_data>>
    /\ UNCHANGED <<running, validator_identity, fetchNo, epIdx, attempts, warnings,
                   errors, result, validators, sorted_validators, ranked_validators,
                   epoch_credits_rank_1, ranked, report, cycleEnd, elapsed,
                   shutdownMsgs, exitCode, sigAt, sinceSignal>>

\* time.sleep(0.1) (tvc.py:277)
SleepTick ==
    /\ pc = "sleep_tick"
    /\ elapsed' = elapsed + 1
    /\ sinceSignal' = Bump("ticks")
    /\ pc' = "sleep_test"
    /\ UNCHANGED <<DEBUG_MODE, temp_files, left_over>>
    /\ UNCHANGED <<argv, cluster, RPC_URLS, startup_output, LIST_RANKS, gossip_data,
                   validator_info_data>>
    /\ UNCHANGED <<running, validator_identity, fetchNo, epIdx, attempts, warnings,
                   errors, result, validators, sorted_validators, ranked_validators,
                   epoch_credits_rank_1, ranked, report, cycleEnd, shutdownMsgs,
                   exitCode, sigAt>>

\* the shutdown confirmation is printed and the interpreter exits (tvc.py:283)
Shutdown ==
    /\ pc = "shutdown"
    /\ shutdownMsgs' = shutdownMsgs + 1
    /\ exitCode' = 0
    /\ pc' = "stopped"
    /\ UNCHANGED <<DEBUG_MODE, temp_files, left_over>>
    /\ UNCHANGED <<argv, cluster, RPC_URLS, startup_output, LIST_RANKS, gossip_data,
                   validator_info_data>>
    /\ UNCHANGED <<running, validator_identity, fetchNo, epIdx, attempts, warnings,
                   errors, result, validators, sorted_validators, ranked_validators,
                   epoch_credits_rank_1, ranked, report, cycleEnd, elapsed, sigAt,
                   sinceSignal>>

-----------------------------------------------------------------------------

Next ==
    \/ signal_handler
    \/ CycleStarts
    \/ LoopExits
    \/ AttemptSucceeds
    \/ AttemptFails
    \/ AttemptRaises
    \/ AllEndpointsFailed
    \/ FetchSkipsCycle
    \/ FetchParseRaises
    \/ FetchStored
    \/ RankStep
    \/ RenderRaises
    \/ Render
    \/ RanksRenderRaises
    \/ RanksRender
    \/ SleepGoesOn
    \/ SleepEnds
    \/ SleepTick
    \/ Shutdown

Spec == Init /\ [][Next]_vars

\* The same process with the debug toggle set.
DebugSpec == DebugInit /\ [][Next]_vars

\* The steps of the main thread that wait for nothing outside the process:
\* the interpreter always goes on to take them.
LoopStep ==
    \/ CycleStarts
    \/ LoopExits
    \/ FetchSkipsCycle
    \/ SleepGoesOn
    \/ SleepEnds
    \/ SleepTick
    \/ Shutdown

FairSpec == Spec /\ WF_vars(LoopStep)

\* The process from the start of the interpreter, for every command line of
\* up to MaxArgs arguments.
StartNext ==
    \/ StartupRejects
    \/ StartupSelects
    \/ Next

StartSpec == StartInit /\ [][StartNext]_vars

\* A sequence of cycles whose fetches all succeed, on validator lists up to
\* MaxListed: the ranking and render steps of each cycle, with what the
\* process keeps from one cycle to the next.
CycleInit ==
    /\ DEBUG_MODE = FALSE
    /\ temp_files = TempFiles
    /\ left_over = 0
    /\ cluster = "um"
    /\ validator_identity \in Ids
    /\ \E script \in Programs : argv = <<script, cluster, validator_identity>>
    /\ RPC_URLS = BuiltinRpcUrls[cluster]
    /\ startup_output = NoOutput
    /\ LIST_RANKS = InitialListRanks
    /\ gossip_data = <<>>
    /\ validator_info_data = <<>>
    /\ running = TRUE
    /\ pc = "rank"
    /\ fetchNo = Len(COMMANDS)
    /\ epIdx = 1
    /\ attempts = <<[endpoint |-> 1, url |-> RPC_URLS[1], outcome |-> "exit0",
                     output |-> Stdout("json", <<>>)]>>
    /\ warnings = 0
    /\ errors = 0
    /\ result = Stdout("json", <<>>)
    /\ validators \in ListsUpTo(ValidatorRecords, MaxListed)
    /\ sorted_validators = <<>>
    /\ ranked_validators = <<>>
    /\ epoch_credits_rank_1 = 0
    /\ ranked = FALSE
    /\ report = NoReport
    /\ cycleEnd = "none"
    /\ elapsed = SleepTicks
    /\ shutdownMsgs = 0
    /\ exitCode = -1
    /\ sigAt = "none"
    /\ sinceSignal = NoSignalWork

\* The sleep is over, the next cycle has started and its three fetches have
\* succeeded on the first endpoint (tvc.py:270-277, 97-138): CycleStarts and
\* the steps of the three calls taken as one step.
CycleFetched ==
    /\ pc = "sleep_test"
    /\ running
    /\ validators' \in ListsUpTo(ValidatorRecords, MaxListed)
    /\ gossip_data' = <<>>
    /\ validator_info_data' = <<>>
    /\ fetchNo' = Len(COMMANDS)
    /\ epIdx' = 1
    /\ attempts' = <<[endpoint |-> 1, url |-> RPC_URLS[1], outcome |-> "exit0",
                      output |-> Stdout("json", <<>>)]>>
    /\ result' = Stdout("json", <<>>)
    /\ ranked' = FALSE
    /\ report' = NoReport
    /\ cycleEnd' = "none"
    /\ elapsed' = SleepTicks
    /\ pc' = "rank"
    /\ temp_files' = TempFiles
    /\ left_over' = LeftOverAfter(left_over, temp_files)
    /\ UNCHANGED DEBUG_MODE
    /\ UNCHANGED <<argv, cluster, RPC_URLS, startup_output, LIST_RANKS>>
    /\ UNCHANGED <<running, validator_identity, warnings, errors, sorted_validators,
                   ranked_validators, epoch_credits_rank_1, shutdownMsgs, exitCode,
                   sigAt, sinceSignal>>

CycleNext ==
    \/ CycleFetched
    \/ RankStep
    \/ RenderRaises
    \/ Render
    \/ RanksRenderRaises
    \/ RanksRender

CycleSpec == CycleInit /\ [][CycleNext]_vars

\* The lookups of the render step, on validator lists with detail keys and
\* on gossip and validator-info lists with entries: lists up to MaxEntries
\* of one dataset beside at most one entry of the others.
AtMostOne(S) == ListsUpTo(S, 1)

Datasets ==
    LET V == ListsUpTo(DetailRecords, MaxEntries) \cup SingleDetailed
        V1 == AtMostOne({ DetailDict(id, 1, {}) : id \in Ids })
        I == ListsUpTo(InfoEntries, MaxEntries)
        G == ListsUpTo(GossipEntries, MaxEntries)
    IN  { <<v, <<>>, <<>>>> : v \in V }
        \cup { <<v, <<>>, i>> : v \in V1, i \in I }
        \cup { <<v, g, <<>>>> : v \in V1, g \in G }
        \cup { <<v, g, i>> : v \in V1, g \in AtMostOne(GossipEntries), i \in AtMostOne(InfoEntries) }

\* an identity that no dataset of the model holds
Absent == "X"

LookupInit ==
    /\ DEBUG_MODE = FALSE
    /\ temp_files = TempFiles
    /\ left_over = 0
    /\ cluster = "um"
    /\ validator_identity \in Ids
    /\ \E script \in Programs : argv = <<script, cluster, validator_identity>>
    /\ RPC_URLS = BuiltinRpcUrls[cluster]
    /\ startup_output = NoOutput
    /\ LIST_RANKS = InitialListRanks
    /\ \E d \in Datasets :
          /\ validators = d[1]
          /\ gossip_data = d[2]
          /\ validator_info_data = d[3]
          /\ result = Stdout("json", d[3])
    /\ attempts = <<[endpoint |-> 1, url |-> RPC_URLS[1], outcome |-> "exit0", output |-> result]>>
    /\ running = TRUE
    /\ pc = "rank"
    /\ fetchNo = Len(COMMANDS)
    /\ epIdx = 1
    /\ warnings = 0
    /\ errors = 0
    /\ sorted_validators = <<>>
    /\ ranked_validators = <<>>
    /\ epoch_credits_rank_1 = 0
    /\ ranked = FALSE
    /\ report = NoReport
    /\ cycleEnd = "none"
    /\ elapsed = SleepTicks
    /\ shutdownMsgs = 0
    /\ exitCode = -1
    /\ sigAt = "none"
    /\ sinceSignal = NoSignalWork

\* get_validator_name, get_ip_address, get_vote_pubkey and
\* get_validator_details are called for an identity (tvc.py:160-197)
LookupStep ==
    /\ pc = "render"
    /\ \E q \in Ids \cup {Absent} :
          report' = LookupsOf(ranked_validators, gossip_data, validator_info_data, q, program)
    /\ pc' = "looked_up"
    /\ UNCHANGED <<DEBUG_MODE, temp_files, left_over>>
    /\ UNCHANGED <<argv, cluster, RPC_URLS, startup_output, LIST_RANKS, gossip_data,
                   validator_info_data>>
    /\ UNCHANGED <<running, validator_identity, fetchNo, epIdx, attempts, warnings,
                   errors, result, validators, sorted_validators, ranked_validators,
                   epoch_credits_rank_1, ranked, cycleEnd, elapsed, shutdownMsgs,
                   exitCode, sigAt, sinceSignal>>

LookupNext ==
    \/ RankStep
    \/ LookupStep
    \/ Render
    \/ RanksRender

LookupSpec == LookupInit /\ [][LookupNext]_vars

\* The ranking and render steps of one cycle, applied to every validator
\* list up to MaxValidators that the three fetches of a cycle may have
\* delivered, and to the list of the end-to-end scenario.
RankInit ==
    /\ DEBUG_MODE = FALSE
    /\ temp_files = TempFiles
    /\ left_over = 0
    /\ cluster = "um"
    /\ \/ /\ validators \in ListsUpTo(ValidatorRecords, MaxValidators)
          /\ validator_identity \in Ids
       \/ /\ validators = ScenarioValidators
          /\ validator_identity \in ScenarioIds
    /\ \E script \in Programs : argv = <<script, cluster, validator_identity>>
    /\ RPC_URLS = BuiltinRpcUrls[cluster]
    /\ startup_output = NoOutput
    /\ LIST_RANKS = InitialListRanks
    /\ gossip_data = <<>>
    /\ validator_info_data = <<>>
    /\ running = TRUE
    /\ pc = "rank"
    /\ fetchNo = Len(COMMANDS)
    /\ epIdx = 1
    /\ attempts = <<[endpoint |-> 1, url |-> RPC_URLS[1], outcome |-> "exit0",
                     output |-> Stdout("json", <<>>)]>>
    /\ warnings = 0
    /\ errors = 0
    /\ result = Stdout("json", <<>>)
    /\ sorted_validators = <<>>
    /\ ranked_validators = <<>>
    /\ epoch_credits_rank_1 = 0
    /\ ranked = FALSE
    /\ report = NoReport
    /\ cycleEnd = "none"
    /\ elapsed = SleepTicks
    /\ shutdownMsgs = 0
    /\ exitCode = -1
    /\ sigAt = "none"
    /\ sinceSignal = NoSignalWork

RankNext ==
    \/ RankStep
    \/ RenderRaises
    \/ Render
    \/ RanksRenderRaises
    \/ RanksRender

RankSpec == RankInit /\ [][RankNext]_vars

TypeOK ==
    /\ DEBUG_MODE \in BOOLEAN
    /\ temp_files \in {{}, TempFiles}
    /\ left_over \in 0..MaxLeftOver
    /\ running \in BOOLEAN
    /\ pc \in CyclePcs \cup SleepPcs
             \cup {"startup", "exited", "looked_up", "while_running", "shutdown", "stopped", "crashed"}
    /\ fetchNo \in 0..Len(COMMANDS)
    /\ pc \notin {"startup", "exited"} => epIdx \in 1..(Len(RPC_URLS) + 2)
    /\ elapsed \in 0..SleepTicks
    /\ exitCode \in {-1, 0, 1}

-----------------------------------------------------------------------------
(* Properties of the failover client *)

Last(q) == q[Len(q)]

InCall == pc \in {"attempt", "returned"}

Returned == pc = "returned"

FailedRuns == { i \in 1..Len(attempts) : attempts[i].outcome # "exit0" }

\* C1: in every call of run_solana_command the endpoints are attempted in
\* the order of RPC_URLS starting from the first one, whatever earlier calls
\* did; nothing is attempted after the first endpoint that succeeds; the
\* value returned is the output of that endpoint; and None is returned only
\* after every endpoint has been attempted and none succeeded.
C1_FailoverInListOrder ==
    InCall =>
        /\ \A i \in 1..Len(attempts) : attempts[i].endpoint = i
        /\ \A i \in 1..(Len(attempts) - 1) : attempts[i].outcome # "exit0"
        /\ pc = "attempt" =>
              /\ epIdx = Len(attempts) + 1
              /\ FailedRuns = 1..Len(attempts)
        /\ (Returned /\ result # None) =>
              /\ attempts # <<>>
              /\ Last(attempts).outcome = "exit0"
              /\ result = Last(attempts).output
        /\ (Returned /\ result = None) =>
              /\ Len(attempts) = Len(RPC_URLS)
              /\ FailedRuns = 1..Len(RPC_URLS)

\* C1 witness: the first endpoint failed, the second answered, and the call
\* returned the second endpoint's JSON.
C1_Witness ==
    /\ Returned
    /\ fetchNo = 2
    /\ Len(attempts) = 2
    /\ attempts[1].outcome = "nonzero"
    /\ attempts[2].outcome = "exit0"
    /\ result = attempts[2].output
    /\ result.kind = "json"

\* C2: when a call of run_solana_command returns, it has printed one warning
\* for each endpoint that failed in the call: [E1 fails, E2 succeeds] returns
\* E2's output with one warning, and when every endpoint has failed the call
\* returns None with one warning per endpoint.
C2_OneWarningPerFailedEndpoint ==
    /\ InCall => warnings = Cardinality(FailedRuns)
    /\ Returned =>
        /\ (result = None) <=> (Cardinality(FailedRuns) = Len(RPC_URLS))
        /\ (result = None) => (warnings = Len(RPC_URLS) /\ errors = 1)
        /\ (Len(attempts) = 2 /\ FailedRuns = {1}) =>
              (result = attempts[2].output /\ warnings = 1)

\* C2 witness: both endpoints failed; None is returned after two warnings.
C2_Witness ==
    /\ Returned
    /\ result = None
    /\ Len(attempts) = Len(RPC_URLS)
    /\ warnings = 2

\* C3: every kind of failed attempt (non-zero exit, an error launching or
\* running the command, an output that is not JSON) is non-fatal and makes
\* the client print a warning and go on to the next endpoint: no run of the
\* command and no parse of its output ends the process, and a call never
\* hands back an output that does not parse.
C3_EveryFailureFailsOver ==
    /\ cycleEnd \notin {"raised_run", "raised_parse"}
    /\ Returned => result.kind # "malformed"

-----------------------------------------------------------------------------
(* Properties of the cycle and of the main loop *)

OutsideCycle == pc \in SleepPcs \cup {"while_running", "shutdown", "stopped"}

\* C4: when run_solana_command returns None for one of the three fetches, the
\* cycle does nothing more (no later fetch, no ranking, no report), the loop
\* goes to the inter-cycle sleep, the process leaves the loop afterwards only
\* if it was cancelled, and otherwise a further cycle starts.
C4_ExhaustedSkipsCycle ==
    /\ [][(Returned /\ result = None /\ pc' # pc) =>
             (pc' = "sleep_test" /\ cycleEnd' = "exhausted" /\ fetchNo' = fetchNo)]_vars
    /\ [](cycleEnd = "exhausted" =>
             /\ OutsideCycle
             /\ ~ranked
             /\ report = NoReport
             /\ exitCode # 1
             /\ (pc \in {"shutdown", "stopped"} => ~running))
    /\ (cycleEnd = "exhausted") ~> (~running \/ (pc = "attempt" /\ fetchNo = 1))

\* C4 witness: the gossip fetch (the second) was exhausted and the loop is
\* sleeping, not cancelled.
C4_Witness ==
    /\ cycleEnd = "exhausted"
    /\ fetchNo = 2
    /\ pc = "sleep_tick"
    /\ elapsed = 3
    /\ running

\* C5: a fault raised once the cycle has reached ranking, indexing or
\* rendering does not end the process: from there on the process ends only
\* in Stopped, after a termination signal.
C5_NoFaultEndsTheProcess ==
    ranked => (Alive \/ (pc = "stopped" /\ ~running))

\* C6: a signal handled while a cycle is in progress changes nothing but the
\* flag; the main thread leaves the cycle by a step of the cycle function,
\* never by the handler; the loop is left only at its `while running` test;
\* and after such a cycle the loop exits without a sleep tick.
C6_SignalNeverAbortsCycle ==
    /\ [][(running /\ ~running') =>
             /\ pc' = pc
             /\ UNCHANGED <<fetchNo, epIdx, attempts, warnings, errors, result,
                            validators, sorted_validators, ranked_validators,
                            epoch_credits_rank_1, ranked, report, cycleEnd>>]_vars
    /\ [][(pc \in CyclePcs /\ pc' \notin CyclePcs) =>
             /\ running' = running
             /\ pc' \in {"sleep_test", "crashed"}
             /\ cycleEnd' # "none"]_vars
    /\ [][(pc' = "shutdown" /\ pc # "shutdown") => (pc = "while_running" /\ ~running)]_vars
    /\ []((sigAt \in CyclePcs /\ OutsideCycle) =>
             /\ cycleEnd \in {"rendered", "exhausted", "empty"}
             /\ (cycleEnd = "rendered" =>
                    ranked /\ fetchNo = Len(COMMANDS) /\ report # NoReport)
             /\ pc # "sleep_tick"
             /\ sinceSignal.ticks = 0)

\* C6 witness: the signal came during the first fetch, the cycle went on to
\* print its report, and the process stopped without a sleep tick.
C6_Witness ==
    /\ sigAt = "attempt"
    /\ cycleEnd = "rendered"
    /\ report.kind = "detail"
    /\ pc = "stopped"
    /\ elapsed = 0

\* C7: the flag is false only after a signal and stays false; while it is
\* false no cycle starts; and the process ends in Stopped only, having
\* printed the shutdown confirmation exactly once, with exit code 0.
C7_RunningCancellingStopped ==
    /\ (~running <=> sigAt # "none")
    /\ sinceSignal.cycles = 0
    /\ ~Alive => (pc = "stopped" /\ ~running /\ shutdownMsgs = 1 /\ exitCode = 0)
    /\ Alive => (shutdownMsgs = 0 /\ exitCode = -1)

\* C8: once the flag is false at most one further sleep tick is slept: the
\* tick in progress when the signal came. The rest of the interval is not
\* waited out.
C8_SleepSamplesFlagEveryTick ==
    /\ sinceSignal.ticks <= 1
    /\ (sinceSignal.ticks = 1 => sigAt = "sleep_tick")
    /\ (~running /\ pc = "sleep_tick") => (sigAt = "sleep_tick" /\ sinceSignal.ticks = 0)

\* C8 witness: the signal came during a tick early in the interval and the
\* process stopped after that one tick.
C8_Witness ==
    /\ sigAt = "sleep_tick"
    /\ sinceSignal.ticks = 1
    /\ elapsed = 2
    /\ pc = "stopped"

\* C9: after a signal the process ends in Stopped and nowhere else, and the
\* work after the signal is at most the rest of one cycle and one sleep tick.
C9_SignalLeadsToStopped ==
    (sigAt # "none") =>
        /\ sinceSignal.cycles = 0
        /\ sinceSignal.ticks <= 1
        /\ pc \in CyclePcs => (fetchNo <= Len(COMMANDS) /\ Len(attempts) <= Len(RPC_URLS))
        /\ ~Alive => pc = "stopped"

-----------------------------------------------------------------------------
(* Properties of the ranking step *)

WithoutRank(v) == [k \in DOMAIN v \ {"rank"} |-> v[k]]

Unranked(R) == [i \in 1..Len(R) |-> WithoutRank(R[i])]

WithCredits(q, c) == SelectSeq(q, LAMBDA v : Credits(v) = c)

MaxOf(S) == CHOOSE m \in S : \A x \in S : x <= m

MinOf(S) == CHOOSE m \in S : \A x \in S : m <= x

\* C10: the ranked view is ordered by non-increasing epochCredits; records
\* with equal epochCredits stand in the order they have in the fetched list;
\* and rank 1 is the earliest record of the fetched list among those with
\* the largest epochCredits.
C10_StableDescendingRanking ==
    (pc = "render") =>
        LET R == ranked_validators
            L == validators
            top == MaxOf({ Credits(L[i]) : i \in 1..Len(L) } \cup {0})
        IN  /\ \A i, j \in 1..Len(R) : i < j => R[i]["epochCredits"] >= R[j]["epochCredits"]
            /\ \A c \in 1..MaxCredits : WithCredits(Unranked(R), c) = WithCredits(L, c)
            /\ (top > 0) =>
                  /\ R # <<>>
                  /\ R[1]["rank"] = 1
                  /\ WithoutRank(R[1]) = L[MinOf({ i \in 1..Len(L) : Credits(L[i]) = top })]
            /\ (top = 0) => R = <<>>

\* C10 witness: two different records tie behind a later record with more
\* credits; the ranked view holds all three.
C10_Witness ==
    /\ pc = "render"
    /\ Len(validators) = 3
    /\ Credits(validators[1]) = 1
    /\ Credits(validators[2]) = 1
    /\ validators[1] # validators[2]
    /\ Credits(validators[3]) = 2
    /\ Len(ranked_validators) = 3
    /\ WithoutRank(ranked_validators[2]) = validators[1]
    /\ WithoutRank(ranked_validators[3]) = validators[2]

Occurrences(q, v) == Cardinality({ i \in 1..Len(q) : q[i] = v })

Range(q) == { q[i] : i \in 1..Len(q) }

\* C11: the rank numbers of the ranked view are exactly 1..k, in this order,
\* without gap or duplicate, where k is the number of fetched records with
\* epochCredits > 0, wherever the records without credits stand in the
\* fetched list.
C11_RanksAreOneToK ==
    (pc = "render") =>
        LET R == ranked_validators
            L == validators
            k == Cardinality({ i \in 1..Len(L) : Credits(L[i]) > 0 })
        IN  /\ Len(R) = k
            /\ \A j \in 1..Len(R) : R[j]["rank"] = j
            /\ { R[j]["rank"] : j \in 1..Len(R) } = 1..k

\* C11 witness: a record without credits stands first in the fetched list,
\* before two records with credits, which take the ranks 1 and 2.
C11_Witness ==
    /\ pc = "render"
    /\ Len(validators) = 3
    /\ Credits(validators[1]) = 0
    /\ Credits(validators[2]) = 1
    /\ Credits(validators[3]) = 2
    /\ Len(ranked_validators) = 2
    /\ ranked_validators[1]["rank"] = 1
    /\ ranked_validators[2]["rank"] = 2

\* C12: the ranked view holds the fetched records with epochCredits > 0, each
\* as often as the fetched list holds it, and no record with missing or zero
\* epochCredits; the rank of a record is its position, counted from 1, in the
\* sorted list of all fetched records; and for A=100, B=100, C=50, D=0 the
\* view is rank 1 = A, rank 2 = B, rank 3 = C, without D.
C12_RankedViewIsFilteredSortedList ==
    (pc = "render") =>
        LET R == ranked_validators
            L == validators
            S == sorted_validators
        IN  /\ \A v \in Range(L) \cup Range(Unranked(R)) :
                  Occurrences(Unranked(R), v) = IF Credits(v) > 0 THEN Occurrences(L, v) ELSE 0
            /\ \A v \in Range(L) \cup Range(S) : Occurrences(S, v) = Occurrences(L, v)
            /\ \A j \in 1..Len(R) :
                  /\ R[j]["rank"] \in 1..Len(S)
                  /\ S[R[j]["rank"]] = WithoutRank(R[j])
            /\ \A i, j \in 1..Len(R) : i < j => R[i]["rank"] < R[j]["rank"]
            /\ (L = ScenarioValidators) =>
                  R = << ("rank" :> 1) @@ L[1], ("rank" :> 2) @@ L[2], ("rank" :> 3) @@ L[3] >>

\* C12 witness: the ranking step has ranked the list of the scenario.
C12_Witness ==
    /\ pc = "render"
    /\ validators = ScenarioValidators
    /\ Len(ranked_validators) = 3
    /\ ranked_validators[3]["identityPubkey"] = "C"
    /\ ranked_validators[3]["rank"] = 3

\* C13: when the ranked view is not empty, the baseline is the epochCredits of
\* the record of rank 1; the baseline minus the epochCredits of a ranked
\* record is never negative; and the missed credits the report shows (for
\* the tracked validator in tvc.py, in every row of the table in
\* tvc-ranks.py) are the baseline minus the epochCredits of the reported
\* record, 0 for rank 1.
C13_MissedCreditsFromLeader ==
    /\ []((pc = "render" /\ ranked_validators # <<>>) =>
             /\ ranked_validators[1]["rank"] = 1
             /\ epoch_credits_rank_1 = ranked_validators[1]["epochCredits"]
             /\ \A k \in 1..Len(ranked_validators) :
                   epoch_credits_rank_1 - ranked_validators[k]["epochCredits"] >= 0)
    /\ [][(pc = "render" /\ report'.kind = "detail") =>
             /\ ranked_validators # <<>>
             /\ report'.missed = ranked_validators[1]["epochCredits"] - report'.credits
             /\ report'.missed >= 0
             /\ (report'.rank = 1 => report'.missed = 0)]_vars
    /\ [][(pc = "render" /\ report'.kind = "table") =>
             \A i \in 1..Len(report'.lines) :
                LET line == report'.lines[i]
                IN  (line.kind = "row") =>
                       /\ ranked_validators # <<>>
                       /\ line.missed = ranked_validators[1]["epochCredits"] - line.credits
                       /\ line.missed >= 0
                       /\ (line.rank = 1 => line.missed = 0)]_vars

\* C13 witness: the report of the scenario for C, 50 credits behind the leader.
C13_Witness ==
    /\ cycleEnd = "rendered"
    /\ report.kind = "detail"
    /\ report.rank = 3
    /\ report.credits = 50
    /\ report.missed = 50

NoCredits(L) == \A i \in 1..Len(L) : Credits(L[i]) = 0

\* C15: when the fetched list is empty or holds no record with
\* epochCredits > 0, the ranked view is empty, the baseline is 0, and the
\* cycle prints its report and returns without an error in both scripts:
\* tvc.py reports the tracked validator as not found, tvc-ranks.py reports
\* every listed rank as not found.
C15_EmptyViewRenders ==
    /\ []((pc = "render" /\ NoCredits(validators)) =>
             /\ ranked_validators = <<>>
             /\ epoch_credits_rank_1 = 0)
    /\ [][(pc = "render" /\ NoCredits(validators)) =>
             /\ pc' = "sleep_test"
             /\ cycleEnd' = "rendered"
             /\ exitCode' = -1
             /\ (program = "tvc.py") =>
                    report' = [kind |-> "not_found", identity |-> validator_identity]
             /\ (program = "tvc-ranks.py") =>
                    /\ report'.kind = "table"
                    /\ LIST_RANKS' = LIST_RANKS
                    /\ Len(report'.lines) = Len(LIST_RANKS)
                    /\ \A i \in 1..Len(report'.lines) :
                          report'.lines[i] = [kind |-> "rank_not_found", rank |-> LIST_RANKS[i]]]_vars

\* C15 witness: tvc-ranks.py has printed its table for an empty ranked view.
C15_Witness ==
    /\ cycleEnd = "rendered"
    /\ report.kind = "table"
    /\ Len(report.lines) = Len(InitialListRanks)
    /\ \A i \in 1..Len(report.lines) : report.lines[i].kind = "rank_not_found"

\* the report shows the tracked validator
TrackedShown(r) ==
    \/ r.kind = "detail"
    \/ /\ r.kind = "table"
       /\ \E i \in 1..Len(r.lines) : r.lines[i].kind = "row" /\ r.lines[i].highlighted

\* C18: the report of a cycle whose ranked view does not hold the tracked
\* identity says that this identity was not found.
C18_AbsentIdentityIsReported ==
    (cycleEnd = "rendered" /\ ~TrackedShown(report)) =>
        (report.kind = "not_found" /\ report.identity = validator_identity)

\* C19: the ranks a report lists depend on the data of its cycle and on the
\* start-up configuration only: they are the ranks of the built-in list and
\* the rank of the tracked validator in this cycle, whatever cycles ran before.
C19_ReportedRanksOfThisCycleOnly ==
    (report.kind = "table") =>
        LET lines == report.lines
            own == { lines[i].rank : i \in { j \in 1..Len(lines) :
                                              lines[j].kind = "row" /\ lines[j].highlighted } }
        IN  { lines[i].rank : i \in 1..Len(lines) } = Range(InitialListRanks) \cup own

-----------------------------------------------------------------------------
(* Properties of the start-up *)

\* C20: a start with a number of arguments other than two, or with a cluster
\* that is neither um nor ut, writes a usage or error line to standard error
\* and exits with a non-zero status before any cycle; after a start with
\* valid arguments every fetch goes to the built-in endpoints of the chosen
\* cluster, in their built-in order.
C20_StartupValidatesArguments ==
    (pc # "startup") =>
        IF Len(argv) # 3 \/ Lower(argv[2]) \notin Clusters
        THEN /\ pc = "exited"
             /\ exitCode \notin {-1, 0}
             /\ startup_output.stderr # <<>>
             /\ fetchNo = 0
             /\ attempts = <<>>
             /\ cycleEnd = "none"
        ELSE /\ pc # "exited"
             /\ startup_output = NoOutput
             /\ RPC_URLS = BuiltinRpcUrls[Lower(argv[2])]
             /\ \A i \in 1..Len(attempts) :
                   attempts[i].url = BuiltinRpcUrls[Lower(argv[2])][i]

-----------------------------------------------------------------------------
(* Properties of the lookups *)

EntriesOf(D, id) == { k \in 1..Len(D) : HasId(D[k]) /\ D[k]["identityPubkey"] = id }

AllUnknown(d) == \A f \in DOMAIN d : d[f] = Unknown

\* C16: a lookup of an identity that a dataset holds no entry for gives
\* "Unknown" for the name, for the IP address, for the vote pubkey and for
\* every field of the details; a lookup of an identity with one or several
\* entries gives the values of the first entry in dataset order; and a lookup
\* raises nothing and changes no dataset, so that other lookups are not
\* affected by it.
C16_LookupMissIsUnknown ==
    /\ [][(pc' = "looked_up") =>
             UNCHANGED <<validator_info_data, gossip_data, ranked_validators, exitCode>>]_vars
    /\ [](pc = "looked_up" =>
            LET q == report.query
                inI == EntriesOf(validator_info_data, q)
                inG == EntriesOf(gossip_data, q)
                inR == EntriesOf(ranked_validators, q)
                i1 == validator_info_data[MinOf(inI)]
                g1 == gossip_data[MinOf(inG)]
                r1 == ranked_validators[MinOf(inR)]
            IN  /\ report.name =
                      IF inI # {} /\ "info" \in DOMAIN i1 /\ "name" \in DOMAIN i1["info"]
                      THEN i1["info"]["name"] ELSE Unknown
                /\ report.ip =
                      IF inG # {} /\ "ipAddress" \in DOMAIN g1 THEN g1["ipAddress"] ELSE Unknown
                /\ (program = "tvc.py") =>
                      report.vote_pubkey =
                          IF inR # {} /\ "voteAccountPubkey" \in DOMAIN r1
                          THEN r1["voteAccountPubkey"] ELSE Unknown
                /\ (inR = {}) => AllUnknown(report.details)
                /\ (inR # {}) =>
                      /\ report.details["version"] = Get(r1, "version", Unknown)
                      /\ report.details["skipRate"] = Get(r1, "skipRate", Unknown)
                      /\ report.details["activatedStake"] # Unknown)

\* C16 witness: the three datasets hold entries, none for the identity looked
\* up, and every lookup gave "Unknown".
C16_Witness ==
    /\ pc = "looked_up"
    /\ report.query = Absent
    /\ ranked_validators # <<>>
    /\ gossip_data # <<>>
    /\ validator_info_data # <<>>
    /\ report.name = Unknown
    /\ report.ip = Unknown
    /\ AllUnknown(report.details)

\* what the reports print for the values of DetailValue
ShownValue ==
    [lastVote |-> "101", rootSlot |-> "100", version |-> "1.18.2", skipRate |-> "12.5",
     activatedStake |-> "1.50"]

\* C17: for a validator that the ranked view holds, each field of the details
\* (activated stake, version, skip rate, and in tvc.py last vote and root
\* slot) is "Unknown" when the record has no such key and the record's own
\* value when it has, the stake being the integer divided by 10^9, whatever
\* other keys the record has.
C17_DetailFieldsIndependent ==
    (pc = "looked_up" /\ EntriesOf(ranked_validators, report.query) # {}) =>
        LET r1 == ranked_validators[MinOf(EntriesOf(ranked_validators, report.query))]
            d == report.details
        IN  /\ DOMAIN d = IF program = "tvc.py"
                          THEN {"lastVote", "rootSlot", "activatedStake", "version", "skipRate"}
                          ELSE {"activatedStake", "version", "skipRate"}
            /\ \A f \in DOMAIN d :
                  d[f] = IF f \notin DOMAIN r1 THEN Unknown
                         ELSE IF f = "activatedStake" THEN ShownValue[f] \o StakeSign(program)
                         ELSE ShownValue[f]

-----------------------------------------------------------------------------
(* Properties of the temp files *)

\* C21: with DEBUG_MODE off, the five temp files exist while their cycle runs
\* and none of them exists once the cycle function has returned or raised
\* (after a render, after the early return of any of the three fetches, after
\* an uncaught exception), so no cycle starts with files of an earlier cycle
\* on disk.
C21_TempFilesRemovedAfterCycle ==
    ~DEBUG_MODE =>
        /\ pc \in CyclePcs => temp_files = TempFiles
        /\ pc \notin CyclePcs => temp_files = {}
        /\ left_over = 0

\* C21 witness: a cycle rendered its report, the sleep is over and the loop
\* is about to start the next cycle with no temp file on disk.
C21_Witness ==
    /\ ~DEBUG_MODE
    /\ cycleEnd = "rendered"
    /\ pc = "while_running"
    /\ running
    /\ temp_files = {}
    /\ left_over = 0

\* C22: with DEBUG_MODE on, the five temp files of a cycle exist while the
\* cycle runs and still exist after it has ended, however it ended: after a
\* render, after an uncaught exception and after the early return of a fetch
\* that yielded no payload.
C22_DebugKeepsTempFiles ==
    (DEBUG_MODE /\ (pc \in CyclePcs \/ cycleEnd # "none")) => temp_files = TempFiles

-----------------------------------------------------------------------------
(* Properties of the skipped cycle *)

====
